---- MODULE Spec2Model ----
(***************************************************************************)
(* Session and transaction orchestration of neo4j/work/simple.py.          *)
(*                                                                         *)
(* The session's fields are the variables.  Every public operation of the  *)
(* Session is one action; the managed-transaction loop of _run_transaction *)
(* is a small process (mt_pc) whose steps are one action each.  The        *)
(* methods are operators on a session record `s` that return the record    *)
(* after the call together with the exception the call raised, so that a   *)
(* method can call another one and a collaborator can call back into the   *)
(* session (the on_closed callbacks _result_closed, _transaction_closed).  *)
(*                                                                         *)
(* Result, Transaction, the connection and the pool live outside this      *)
(* file; they are modelled from their documented contract and the outcome  *)
(* of each of their calls is an input of the action (the record `o`).      *)
(***************************************************************************)
EXTENDS Integers, Sequences, FiniteSets, TLC

VARIABLES
    _connection,   \* Session._connection: 0 (None) or the id of the leased connection
    in_use,        \* the connections whose in_use flag is set (acquired, not released)
    _transaction,  \* Session._transaction: the current Transaction, if any
    _autoResult,   \* Session._autoResult: the current auto-commit Result, if any
    _bookmarks,    \* Session._bookmarks
    _state,        \* Session._state
    reported,      \* history: the most recent non-empty bookmark a finished
                   \*   transaction or result reported, or the seed
    carried,       \* history: the bookmarks of the begin / run message the last
                   \*   operation sent
    previous,      \* history: the result that completed in the last operation
                   \*   and what became of its remaining records
    begun,         \* history: the connections with a transaction begun on them
                   \*   for which no commit and no rollback was issued
    abandoned,     \* history: the last operation released a connection of `begun`
    mt_pc,         \* _run_transaction: position of the managed-transaction loop
    errors,        \* _run_transaction: errors
    elapsed,       \* _run_transaction: perf_counter() - t0
    retries,       \* _run_transaction: values taken from retry_delay so far
    calls,         \* history: invocations of unit_of_work in the current call
    unit_of_work,  \* _run_transaction: the exception unit_of_work raised, in
                   \*   flight through lines 320-327
    op,            \* history: the last operation
    raised,        \* history: the exception the last operation raised
    fin            \* history: the commit / rollback the last operation issued on
                   \*   its transaction, the bookmark it reported, what it raised

vars == <<_connection, in_use, _transaction, _autoResult, _bookmarks, _state,
          reported, carried, previous, begun, abandoned, mt_pc, errors, elapsed, retries, calls,
          unit_of_work, op, raised, fin>>

----------------------------------------------------------------------------
(* Bounds *)

\* Connections of the pool.
NumConnections == 2
\* Longest duration of one attempt of a managed transaction, in clock ticks.
MaxAttemptTime == 1

----------------------------------------------------------------------------
(* Values *)

NoConnection == 0
Connections == 1..NumConnections

NoBookmark == ""
Bookmarks == {"B1", "B2"}
\* session_config.bookmarks
Seeds == {<<>>, <<"S1", "S2">>}

NoTransaction == [set |-> FALSE, closed |-> FALSE, bookmark |-> NoBookmark, cx |-> NoConnection]
NoResult == [set |-> FALSE, attached |-> FALSE, bookmark |-> NoBookmark, cx |-> NoConnection]

Exc(cls, code) == [cls |-> cls, code |-> code]
NoExc == Exc("none", "")
ServiceUnavailable == Exc("ServiceUnavailable", "")
SessionExpired == Exc("SessionExpired", "")
\* Neo4jError that is not a TransientError
ClientError == Exc("Neo4jError", "Neo.ClientError.Statement.SyntaxError")
TransientErrors == {Exc("TransientError", c) : c \in
    {"Neo.TransientError.Transaction.DeadlockDetected",
     "Neo.TransientError.Transaction.Terminated",
     "Neo.TransientError.Transaction.LockClientStopped"}}
TransactionError == Exc("TransactionError", "")
ValueError == Exc("ValueError", "")
TypeError == Exc("TypeError", "")
\* TypeError: exceptions must derive from BaseException
NotAnException == Exc("TypeError", "exceptions must derive from BaseException")
AttributeError == Exc("AttributeError", "")
\* an exception of the caller's own code
UserError == Exc("UserError", "")
\* no call of the unit of work is being handled
NotInvoked == Exc("not invoked", "")

\* What a call on the connection, the pool, a Result or a Transaction raises
\* when it fails.
CollaboratorErrors == {ServiceUnavailable, SessionExpired, ClientError} \cup TransientErrors

\* The result of a method: the session afterwards and the exception raised.
Ret(s, e) == [s |-> s, exc |-> e]

\* The session (and the pool's flags) as one record.
Self == [_connection |-> _connection, in_use |-> in_use,
         _transaction |-> _transaction, _autoResult |-> _autoResult,
         _bookmarks |-> _bookmarks, _state |-> _state,
         reported |-> reported, carried |-> carried, fin |-> fin,
         previous |-> previous,
         begun |-> begun, abandoned |-> abandoned]

NoMessage == [sent |-> FALSE, bookmarks |-> <<>>]
NoFinalize == [called |-> FALSE, b |-> NoBookmark, exc |-> NoExc]
NoPrevious == [done |-> FALSE, records |-> "", b |-> NoBookmark]

Report(s, b) == IF b # NoBookmark THEN [s EXCEPT !.reported = <<b>>] ELSE s

----------------------------------------------------------------------------
(* Session: the private methods *)

_disconnect(s) ==
    IF s._connection # NoConnection
    THEN [s EXCEPT !.in_use = @ \ {s._connection}, !._connection = NoConnection,
                   !.abandoned = @ \/ s._connection \in s.begun,
                   !.begun = @ \ {s._connection}]
    ELSE s

\* _collect_bookmark with the bookmark added to the ones held.
_collect_bookmark_merging(s, bookmark) ==
    IF bookmark # NoBookmark
    THEN [s EXCEPT !._bookmarks = Append(@, bookmark)]
    ELSE s

_collect_bookmark(s, bookmark) ==
    IF bookmark # NoBookmark THEN [s EXCEPT !._bookmarks = <<bookmark>>] ELSE s

\* _result_closed without the collection of the result's bookmark.
_result_closed_without_bookmark(s) ==
    IF s._autoResult.set
    THEN _disconnect([s EXCEPT !._autoResult = NoResult])
    ELSE s

_result_closed(s) ==
    IF s._autoResult.set
    THEN _disconnect([_collect_bookmark(s, s._autoResult.bookmark)
                        EXCEPT !._autoResult = NoResult])
    ELSE s

\* _transaction_closed without the release of the connection.
_transaction_closed_keeping_lease(s) ==
    IF s._transaction.set
    THEN [_collect_bookmark(s, s._transaction.bookmark)
            EXCEPT !._transaction = NoTransaction]
    ELSE s

_transaction_closed(s) ==
    IF s._transaction.set
    THEN _disconnect([_collect_bookmark(s, s._transaction.bookmark)
                        EXCEPT !._transaction = NoTransaction])
    ELSE s

----------------------------------------------------------------------------
(* Collaborators: Result, Transaction, the connection, the pool.           *)
(* `o` holds the outcome of the collaborator calls of one operation:       *)
(*   o.fail    the calls that fail             o.k    what a failing call raises *)
(*   o.rb      the bookmark a completing result reports ("" for none)      *)
(*   o.tb      the bookmark a commit / rollback reports ("" for none)      *)
(*   o.drain   whether fetch_all receives the end of the attached result   *)
(* A call that fails raises and changes nothing.                           *)

Ok(o, call) == call \notin o.fail

\* The attached result receives its summary: it holds its bookmark, is no
\* longer attached and calls its on_closed callback.  Its remaining records
\* were "buffered" or "discarded".
Result_complete(s, b, records) ==
    _result_closed(Report([s EXCEPT !._autoResult.attached = FALSE,
                                    !._autoResult.bookmark = b,
                                    !.previous = [done |-> TRUE,
                                                  records |-> records,
                                                  b |-> b]], b))

\* Result._run: sends the query with the bookmarks.
Result_run(s, o) ==
    LET m == [s EXCEPT !.carried = [sent |-> TRUE, bookmarks |-> s._bookmarks]]
    IN  IF Ok(o, "run")
        THEN Ret([m EXCEPT !._autoResult.attached = TRUE], NoExc)
        ELSE Ret(m, o.k)

\* Result._detach: buffers the remaining records and frees the connection.
Result_detach(s, o) ==
    IF ~s._autoResult.attached THEN Ret(s, NoExc)
    ELSE IF Ok(o, "detach") THEN Ret(Result_complete(s, o.rb, "buffered"), NoExc)
    ELSE Ret(s, o.k)

\* Result.consume: discards the remaining records.
Result_consume(s, o) ==
    IF ~s._autoResult.attached THEN Ret(s, NoExc)
    ELSE IF Ok(o, "consume")
    THEN Ret(Result_complete(s, o.rb, "discarded"), NoExc)
    ELSE Ret(s, o.k)

\* connection.send_all(); connection.fetch_all()
Flush(s, o) ==
    IF ~Ok(o, "flush") THEN Ret(s, o.k)
    ELSE IF /\ o.drain
            /\ s._autoResult.set /\ s._autoResult.attached
            /\ s._autoResult.cx = s._connection
    THEN Ret(Result_complete(s, o.rb, "buffered"), NoExc)
    ELSE Ret(s, NoExc)

\* connection.rollback(): a rollback is issued on the connection.
Connection_rollback(s, o) ==
    LET m == [s EXCEPT !.begun = @ \ {s._connection}]
    IN  IF Ok(o, "cx_rollback") THEN Ret(m, NoExc) ELSE Ret(m, o.k)

Min(S) == CHOOSE x \in S : \A y \in S : x <= y

\* pool.acquire: a connection that is not in use, marked in use.
Pool_acquire(s, o) ==
    LET free == Connections \ s.in_use
    IN  IF ~Ok(o, "acquire") THEN Ret(s, o.k)
        ELSE IF free = {} THEN Ret(s, ServiceUnavailable)
        ELSE Ret([s EXCEPT !._connection = Min(free),
                           !.in_use = @ \cup {Min(free)}], NoExc)

\* Transaction._begin: sends the begin message with the bookmarks.
Transaction_begin(s, o) ==
    LET m == [s EXCEPT !.carried = [sent |-> TRUE, bookmarks |-> s._bookmarks]]
    IN  IF Ok(o, "begin")
        THEN Ret([m EXCEPT !.begun = @ \cup {s._connection}], NoExc)
        ELSE Ret(m, o.k)

\* Transaction.commit / Transaction.rollback (call is "commit" or "rollback"):
\* on success the transaction holds the reported bookmark, is closed and calls
\* its on_closed callback.
Transaction_finish(s, o, call) ==
    IF s._transaction.closed
    THEN Ret(s, TransactionError)
    ELSE IF Ok(o, call) /\ Ok(o, "finish")
    THEN LET f == [s EXCEPT !.fin = [called |-> TRUE, b |-> o.tb, exc |-> NoExc],
                            !.begun = @ \ {s._transaction.cx}]
         IN  Ret(_transaction_closed(
                    Report([f EXCEPT !._transaction.closed = TRUE,
                                     !._transaction.bookmark = o.tb], o.tb)),
                 NoExc)
    ELSE Ret([s EXCEPT !.fin = [called |-> TRUE, b |-> NoBookmark, exc |-> o.k],
                       !.begun = @ \ {s._transaction.cx}],
             o.k)

\* Transaction._close: an open transaction becomes closed without a commit or
\* a rollback and calls its on_closed callback.
Transaction_close(s, o) ==
    IF ~s._transaction.set \/ s._transaction.closed THEN Ret(s, NoExc)
    ELSE IF Ok(o, "tx_close")
    THEN Ret(_transaction_closed([s EXCEPT !._transaction.closed = TRUE]), NoExc)
    ELSE Ret(s, o.k)

----------------------------------------------------------------------------
(* Session: the methods *)

\* _connect without the release of the connection already held.
_connect_keeping_lease(s, o) ==
    LET f == IF s._connection # NoConnection THEN Flush(s, o) ELSE Ret(s, NoExc)
    IN  IF f.exc # NoExc THEN f
        ELSE Pool_acquire(f.s, o)

_connect(s, o) ==
    LET f == IF s._connection # NoConnection THEN Flush(s, o) ELSE Ret(s, NoExc)
    IN  IF f.exc # NoExc THEN f
        ELSE Pool_acquire(_disconnect(f.s), o)

_open_transaction(s, o) ==
    LET c == _connect(s, o)
    IN  IF c.exc # NoExc THEN c
        ELSE Transaction_begin(
                [c.s EXCEPT !._transaction =
                    [set |-> TRUE, closed |-> FALSE, bookmark |-> NoBookmark,
                     cx |-> c.s._connection]], o)

\* The exceptions close() catches around send_all / fetch_all.
CaughtByClose == {"Neo4jError", "TransientError", "TransactionError",
                  "ServiceUnavailable", "SessionExpired"}

\* close(), lines 126-134: the outstanding result
close_result(s, o) ==
    IF s._autoResult.set /\ s._state # "error_state"
    THEN LET r == Result_consume(s, o)
         IN  IF r.exc # NoExc \/ ~r.s._autoResult.set
             \* consume() raised, or the callback has cleared _autoResult
             \* and reading its _bookmark raises AttributeError
             THEN [r.s EXCEPT !._autoResult = NoResult, !._state = "error_state"]
             ELSE _collect_bookmark(r.s, r.s._autoResult.bookmark)
    ELSE s

\* close(), lines 136-140: the outstanding transaction
close_transaction(s, o) ==
    IF s._transaction.set
    THEN LET r == IF s._transaction.closed THEN Ret(s, NoExc)
                  ELSE IF s._connection = NoConnection THEN Ret(s, AttributeError)
                  ELSE Connection_rollback(s, o)
         IN  IF r.exc # NoExc THEN r
             ELSE Ret([r.s EXCEPT !._transaction = NoTransaction], NoExc)
    ELSE Ret(s, NoExc)

\* close(), lines 142-157: the flush, the release, the state
close_flush(s, o) ==
    LET f == IF s._connection = NoConnection THEN Ret(s, AttributeError)
             ELSE Flush(s, o)
    IN  IF f.exc # NoExc /\ f.exc.cls \notin CaughtByClose
        THEN Ret(_disconnect(f.s), f.exc)
        ELSE Ret([_disconnect(f.s) EXCEPT !._state = "None"], NoExc)

close(s, o) ==
    IF s._connection # NoConnection
    THEN LET t == close_transaction(close_result(s, o), o)
         IN  IF t.exc # NoExc THEN t ELSE close_flush(t.s, o)
    ELSE Ret(s, NoExc)

__exit__(s, o, faulted) ==
    close([s EXCEPT !._state = IF faulted THEN "error_state"
                                ELSE "graceful_close_state"], o)

\* run without the detach of the previous result.
run_without_detach(s, o, query) ==
    IF query = "empty" THEN Ret(s, ValueError)
    ELSE IF query = "not_a_query" THEN Ret(s, TypeError)
    ELSE IF s._transaction.set THEN Ret(s, NotAnException)
    ELSE LET c == IF s._connection = NoConnection THEN _connect(s, o)
                  ELSE Ret(s, NoExc)
         IN  IF c.exc # NoExc THEN c
             ELSE Result_run(
                    [c.s EXCEPT !._autoResult =
                        [set |-> TRUE, attached |-> FALSE, bookmark |-> NoBookmark,
                         cx |-> c.s._connection]], o)

run(s, o, query) ==
    IF query = "empty" THEN Ret(s, ValueError)
    ELSE IF query = "not_a_query" THEN Ret(s, TypeError)
    \* raise "hell": raising a str is a TypeError
    ELSE IF s._transaction.set THEN Ret(s, NotAnException)
    ELSE LET d == IF s._autoResult.set THEN Result_detach(s, o) ELSE Ret(s, NoExc)
             c == IF d.s._connection = NoConnection THEN _connect(d.s, o)
                  ELSE Ret(d.s, NoExc)
         IN  IF d.exc # NoExc THEN d
             ELSE IF c.exc # NoExc THEN c
             ELSE Result_run(
                    [c.s EXCEPT !._autoResult =
                        [set |-> TRUE, attached |-> FALSE, bookmark |-> NoBookmark,
                         cx |-> c.s._connection]], o)

next_bookmarks(s, o) ==
    LET d == IF s._autoResult.set THEN Result_detach(s, o) ELSE Ret(s, NoExc)
    IN  IF d.exc # NoExc THEN d
        ELSE IF d.s._transaction.set /\ d.s._transaction.closed
        THEN Ret([_collect_bookmark(d.s, d.s._transaction.bookmark)
                    EXCEPT !._transaction = NoTransaction], NoExc)
        ELSE d

begin_transaction(s, o) ==
    LET d == IF s._autoResult.set THEN Result_detach(s, o) ELSE Ret(s, NoExc)
    IN  IF d.exc # NoExc THEN d
        ELSE IF d.s._transaction.set THEN Ret(d.s, TransactionError)
        ELSE _open_transaction(d.s, o)

commit_transaction(s, o) ==
    IF ~s._transaction.set THEN Ret(s, TransactionError)
    ELSE LET c == Transaction_finish(s, o, "commit")
         IN  Ret(_transaction_closed(c.s), c.exc)

rollback_transaction(s, o) ==
    IF ~s._transaction.set THEN Ret(s, TransactionError)
    ELSE LET c == Transaction_finish(s, o, "rollback")
         IN  Ret(_transaction_closed(c.s), c.exc)

----------------------------------------------------------------------------
(* The managed transaction: _run_transaction and its helpers *)

\* self._config.initial_retry_delay, in clock ticks
initial_retry_delay == 2
\* self._config.retry_delay_multiplier
retry_delay_multiplier == 2
\* self._config.retry_delay_jitter_factor = JitterNum / JitterDen
JitterNum == 1
JitterDen == 2
\* random() returns r / RandomDen for an r in 0 .. RandomDen - 1
RandomDen == 2
\* self._config.max_transaction_retry_time, in clock ticks
max_transaction_retry_time == 2

RECURSIVE Power(_, _)
Power(m, k) == IF k = 0 THEN 1 ELSE m * Power(m, k - 1)

\* retry_delay_generator with the jitter added to the delay, not spread
\* around it.
retry_delay_generator_above(k, r) ==
    LET delay == initial_retry_delay * Power(retry_delay_multiplier, k)
        jitter2 == 2 * JitterNum * delay
    IN  (delay * JitterDen * 2 + (2 * jitter2 * r) \div RandomDen)
            \div (2 * JitterDen)

\* The k-th value of retry_delay_generator when random() returns r / RandomDen.
retry_delay_generator(k, r) ==
    LET delay == initial_retry_delay * Power(retry_delay_multiplier, k)
        jitter2 == 2 * JitterNum * delay   \* 2 * jitter * JitterDen
    IN  (delay * JitterDen * 2 - jitter2 + (2 * jitter2 * r) \div RandomDen)
            \div (2 * JitterDen)

\* is_retriable_transient_error that does not look at the code.
is_retriable_transient_error_any(error) == TRUE

is_retriable_transient_error(error) ==
    ~(error.code \in {"Neo.TransientError.Transaction.Terminated",
                      "Neo.TransientError.Transaction.LockClientStopped"})

\* The except clauses with a handler that records every exception.
Handler_recording_all(error) == "retry"

\* The except clauses of the loop: "retry" (the error is recorded), "raise".
Handler(error) ==
    IF error.cls \in {"ServiceUnavailable", "SessionExpired"} THEN "retry"
    ELSE IF error.cls = "TransientError"
    THEN IF is_retriable_transient_error(error) THEN "retry" ELSE "raise"
    ELSE "raise"

\* Lines 320-327: the unit of work has raised `w` (or returned, when w is
\* NoExc): the rollback or the commit, then the close.
_run_transaction_work(s, o, w) ==
    LET f == IF w # NoExc THEN Transaction_finish(s, o, "rollback")
             ELSE Transaction_finish(s, o, "commit")
        e == IF f.exc # NoExc THEN f.exc ELSE w
        z == Transaction_close(f.s, o)
    IN  Ret(z.s, IF z.exc # NoExc THEN z.exc ELSE e)

----------------------------------------------------------------------------
(* Inputs *)

BookmarkOrNone == Bookmarks \cup {NoBookmark}

\* The operation stops at its first failing call: at most one call fails.
OneOf(callNames) == {{}} \cup {{c} : c \in callNames}

\* What the collaborators raise in the operations that do not look at the
\* kind of the exception.
SessionErrors == {ServiceUnavailable}

Outcomes(failSets, ks, rbs, tbs, drains) ==
    [fail : failSets, k : ks, rb : rbs, tb : tbs, drain : drains]

NoOutcome == [fail |-> {}, k |-> ServiceUnavailable, rb |-> NoBookmark,
              tb |-> NoBookmark, drain |-> FALSE]

Queries == {"query", "empty", "not_a_query"}
\* What pool.acquire, send_all / fetch_all and the begin message raise in an
\* attempt of a managed transaction.
OpenErrors == {ServiceUnavailable, SessionExpired}
\* What commit, rollback and close raise in an attempt.
FinishErrors == {ServiceUnavailable, ClientError} \cup TransientErrors
\* What the unit of work raises (NoExc: it returns).
WorkOutcomes == {NoExc, UserError, ServiceUnavailable} \cup TransientErrors

----------------------------------------------------------------------------
(* The state machine *)

\* The session at the start of an operation.
Start == [Self EXCEPT !.fin = NoFinalize, !.carried = NoMessage,
                      !.previous = NoPrevious, !.abandoned = FALSE]

Install(s) ==
    /\ _connection' = s._connection
    /\ in_use' = s.in_use
    /\ _transaction' = s._transaction
    /\ _autoResult' = s._autoResult
    /\ _bookmarks' = s._bookmarks
    /\ _state' = s._state
    /\ reported' = s.reported
    /\ carried' = s.carried
    /\ fin' = s.fin
    /\ previous' = s.previous
    /\ begun' = s.begun
    /\ abandoned' = s.abandoned

\* A public method returned: r is its result.
Return(name, r) ==
    /\ Install(r.s)
    /\ op' = name
    /\ raised' = r.exc

Init ==
    /\ _connection = NoConnection
    /\ in_use = {}
    /\ _transaction = NoTransaction
    /\ _autoResult = NoResult
    /\ _bookmarks \in Seeds
    /\ _state = "None"
    /\ reported = _bookmarks
    /\ carried = NoMessage
    /\ previous = NoPrevious
    /\ begun = {}
    /\ abandoned = FALSE
    /\ mt_pc = "idle"
    /\ errors = <<>>
    /\ elapsed = 0
    /\ retries = 0
    /\ calls = 0
    /\ unit_of_work = NotInvoked
    /\ op = "init"
    /\ raised = NoExc
    /\ fin = NoFinalize

\* The locals of _run_transaction before the loop, and after the call.
NoLocals ==
    /\ errors' = <<>>
    /\ elapsed' = 0
    /\ retries' = 0
    /\ calls' = 0
    /\ unit_of_work' = NotInvoked

mt_vars == <<mt_pc, errors, elapsed, retries, calls, unit_of_work>>

Run ==
    /\ mt_pc = "idle"
    /\ \E query \in Queries :
       \E o \in IF query = "query"
                 THEN Outcomes(OneOf({"detach", "flush", "acquire", "run"}),
                               SessionErrors, BookmarkOrNone, {NoBookmark}, BOOLEAN)
                 ELSE {NoOutcome} :
          Return("run", run(Start, o, query))
    /\ UNCHANGED mt_vars

BeginTransaction ==
    /\ mt_pc = "idle"
    /\ \E o \in Outcomes(OneOf({"detach", "flush", "acquire", "begin"}),
                         SessionErrors, BookmarkOrNone, {NoBookmark}, BOOLEAN) :
          Return("begin_transaction", begin_transaction(Start, o))
    /\ UNCHANGED mt_vars

CommitTransaction ==
    /\ mt_pc = "idle"
    /\ \E o \in Outcomes(OneOf({"commit"}), SessionErrors, {NoBookmark},
                         BookmarkOrNone, {FALSE}) :
          Return("commit_transaction", commit_transaction(Start, o))
    /\ UNCHANGED mt_vars

RollbackTransaction ==
    /\ mt_pc = "idle"
    /\ \E o \in Outcomes(OneOf({"rollback"}), SessionErrors, {NoBookmark},
                         BookmarkOrNone, {FALSE}) :
          Return("rollback_transaction", rollback_transaction(Start, o))
    /\ UNCHANGED mt_vars

NextBookmarks ==
    /\ mt_pc = "idle"
    /\ \E o \in Outcomes(OneOf({"detach"}), SessionErrors, BookmarkOrNone,
                         {NoBookmark}, {FALSE}) :
          Return("next_bookmarks", next_bookmarks(Start, o))
    /\ UNCHANGED mt_vars

Close ==
    /\ mt_pc = "idle"
    /\ \E o \in Outcomes(SUBSET {"consume", "cx_rollback", "flush"},
                         SessionErrors, BookmarkOrNone, {NoBookmark}, BOOLEAN) :
          Return("close", close(Start, o))
    /\ UNCHANGED mt_vars

\* The end of a `with` block, left normally or by an exception.
Exit ==
    /\ mt_pc = "idle"
    /\ \E faulted \in BOOLEAN :
       \E o \in Outcomes(SUBSET {"consume", "cx_rollback", "flush"},
                         SessionErrors, BookmarkOrNone, {NoBookmark}, BOOLEAN) :
          Return("__exit__", __exit__(Start, o, faulted))
    /\ UNCHANGED mt_vars

\* The caller reads the current result to its end: the result completes and
\* calls _result_closed.
ResultConsumed ==
    /\ mt_pc = "idle"
    /\ _autoResult.set /\ _autoResult.attached
    /\ \E o \in Outcomes(OneOf({"consume"}), SessionErrors, BookmarkOrNone,
                         {NoBookmark}, {FALSE}) :
          Return("result_consumed", Result_consume(Start, o))
    /\ UNCHANGED mt_vars

\* The budget check with a budget one tick longer.
budget_exceeded_late(t1) == t1 > max_transaction_retry_time + 1

\* Line 338: the budget check after a failed attempt that ended at t1.
budget_exceeded(t1) == t1 > max_transaction_retry_time

\* Giving up with the first recorded error.
give_up_error_first(errs) ==
    IF errs # <<>> THEN errs[1] ELSE ServiceUnavailable

\* Lines 344-347: what the call raises when it gives up.
give_up_error(errs) ==
    IF errs # <<>> THEN errs[Len(errs)] ELSE ServiceUnavailable

\* read_transaction / write_transaction, lines 304-314
RunTransaction ==
    /\ mt_pc = "idle"
    /\ \E callable \in BOOLEAN :
          IF callable
          THEN /\ mt_pc' = "open"
               /\ op' = "run_transaction_start"
               /\ raised' = NoExc
               /\ Install(Start)
          ELSE /\ Return("run_transaction_rejected", Ret(Start, TypeError))
               /\ mt_pc' = "idle"
    /\ NoLocals

\* The attempt ended with exception e (NoExc: the unit of work returned and
\* the commit succeeded) at dt ticks after it started.  The clock is read
\* (line 337) only when the error is recorded.
Attempted(e, dt) ==
    IF e = NoExc
    THEN /\ mt_pc' = "idle" /\ op' = "run_transaction" /\ raised' = NoExc
         /\ NoLocals
    ELSE IF Handler(e) = "retry"
    THEN /\ mt_pc' = "check" /\ op' = "run_transaction_attempt"
         /\ raised' = NoExc
         /\ errors' = Append(errors, e)
         /\ elapsed' = elapsed + dt
         /\ unit_of_work' = NotInvoked
         /\ UNCHANGED <<retries, calls>>
    ELSE /\ mt_pc' = "idle" /\ op' = "run_transaction" /\ raised' = e
         /\ NoLocals

\* Line 317: the attempt opens its transaction.
RunTransactionOpen ==
    /\ mt_pc = "open"
    /\ \E o \in Outcomes(OneOf({"flush", "acquire", "begin"}),
                         OpenErrors, BookmarkOrNone, {NoBookmark}, BOOLEAN) :
          LET r == _open_transaction(Start, o)
          IN  /\ Install(r.s)
              /\ IF r.exc = NoExc
                 THEN /\ mt_pc' = "work" /\ op' = "run_transaction_open"
                      /\ raised' = NoExc
                      /\ UNCHANGED <<errors, elapsed, retries, calls,
                                     unit_of_work>>
                 ELSE \E dt \in 0..MaxAttemptTime : Attempted(r.exc, dt)

\* Line 319: the unit of work is invoked; it raises w, or returns (NoExc).
RunTransactionWork ==
    /\ mt_pc = "work"
    /\ \E w \in WorkOutcomes : unit_of_work' = w
    /\ mt_pc' = "finish"
    /\ calls' = calls + 1
    /\ op' = "run_transaction_work"
    /\ raised' = NoExc
    /\ Install(Start)
    /\ UNCHANGED <<errors, elapsed, retries>>

\* Lines 320-336: the rollback or the commit, the close, the handlers.
RunTransactionFinish ==
    /\ mt_pc = "finish"
    /\ \E o \in Outcomes(SUBSET {"finish", "tx_close"},
                         FinishErrors, {NoBookmark}, BookmarkOrNone, {FALSE}) :
       \E dt \in 0..MaxAttemptTime :
          LET r == _run_transaction_work(Start, o, unit_of_work)
          IN  /\ Install(r.s)
              /\ Attempted(r.exc, dt)

\* Lines 337-347: the budget check, the next delay, the sleep; r is the value
\* of random().
RunTransactionCheck ==
    /\ mt_pc = "check"
    /\ IF budget_exceeded(elapsed)
       THEN /\ mt_pc' = "idle"
            /\ op' = "run_transaction_timeout"
            /\ raised' = give_up_error(errors)
            /\ NoLocals
       ELSE \E r \in 0..(RandomDen - 1) :
            /\ mt_pc' = "open"
            /\ elapsed' = elapsed + retry_delay_generator(retries, r)
            /\ retries' = retries + 1
            /\ op' = "run_transaction_sleep"
            /\ raised' = NoExc
            /\ UNCHANGED <<errors, calls, unit_of_work>>
    /\ Install(Start)

Next ==
    \/ Run
    \/ BeginTransaction
    \/ CommitTransaction
    \/ RollbackTransaction
    \/ NextBookmarks
    \/ Close
    \/ Exit
    \/ ResultConsumed
    \/ RunTransaction
    \/ RunTransactionOpen
    \/ RunTransactionWork
    \/ RunTransactionFinish
    \/ RunTransactionCheck

Spec == Init /\ [][Next]_vars

\* The positions of the loop of _run_transaction.
Positions == {"idle", "open", "work", "finish", "check"}

\* A step of _run_transaction: within a call only RunTransactionOpen,
\* RunTransactionWork, RunTransactionFinish and RunTransactionCheck can be
\* taken, and each of them leaves the position it is taken at.
LoopStep ==
    /\ mt_pc # "idle"
    /\ mt_pc' \in Positions
    /\ mt_pc' # mt_pc

\* The opening of the transaction, the unit of work, the commit or rollback
\* and the sleep all terminate: the loop does not stay at a position for
\* ever.
FairSpec == Spec /\ WF_mt_pc(LoopStep)

----------------------------------------------------------------------------
(* Properties *)

CloseOps == {"close", "__exit__"}

\* C1: the current auto-commit result and the current transaction are never
\* both non-null.
C1_ResultXorTransaction == ~(_autoResult.set /\ _transaction.set)

\* C2: whenever the current auto-commit result or the current transaction is
\* non-null, the session holds a connection lease.
C2_ActiveHoldsLease ==
    (_autoResult.set \/ _transaction.set) => _connection # NoConnection

\* C3: the session holds at most one connection lease: the connections it
\* has acquired and not released are at most one, the one it refers to.
C3_AtMostOneLease ==
    /\ Cardinality(in_use) <= 1
    /\ in_use \subseteq {_connection}

\* C3 witness: a retry of a managed transaction has acquired a connection.
C3_Witness ==
    /\ op = "run_transaction_open" /\ retries > 0
    /\ in_use = {_connection}

\* C4: a close() called while the session holds a lease has released it when
\* it completes.
C4_CloseReleasesLease ==
    [][(op' \in CloseOps /\ _connection # NoConnection)
        => (_connection' = NoConnection /\ _connection \notin in_use')]_vars

\* C5: close() never raises a connectivity, protocol or usage failure.
C5_CloseNeverRaises ==
    op \in CloseOps => raised.cls \notin CaughtByClose

\* C6: after a close() that completed the session has no auto-commit result
\* and no transaction.
C6_IdleAfterClose ==
    (op \in CloseOps /\ raised = NoExc)
        => (~_autoResult.set /\ ~_transaction.set)

\* C7: begin_transaction while a transaction is open raises TransactionError
\* and leaves the transaction, the result, the lease and the bookmarks as
\* they were.
C7_BeginWhileOpenChangesNothing ==
    [][(op' = "begin_transaction" /\ _transaction.set)
        => (/\ raised' = TransactionError
            /\ UNCHANGED <<_transaction, _autoResult, _connection, in_use,
                           _bookmarks>>)]_vars

\* C8: after commit_transaction or rollback_transaction on an open
\* transaction, whether the commit / rollback succeeded or raised, the session
\* has no transaction and no lease, the reported bookmark is folded into the
\* bookmarks, and a failure is raised to the caller.
C8_FinalizeOnEitherOutcome ==
    [][(/\ op' \in {"commit_transaction", "rollback_transaction"}
        /\ _transaction.set /\ ~_transaction.closed)
        => (/\ ~_transaction'.set
            /\ _connection' = NoConnection /\ in_use' = {}
            /\ fin'.called
            /\ _bookmarks' = IF fin'.b # NoBookmark THEN <<fin'.b>> ELSE _bookmarks
            /\ raised' = fin'.exc)]_vars

\* C8 witness: a commit_transaction whose commit raised has finalized.
C8_Witness ==
    /\ op = "commit_transaction" /\ fin.called /\ fin.exc # NoExc
    /\ raised = fin.exc
    /\ ~_transaction.set /\ _connection = NoConnection

\* C9: a commit or rollback (explicit or managed) that reports a non-empty
\* bookmark B leaves the bookmarks equal to <<B>>; one that reports none
\* leaves them unchanged.
C9_BookmarkReplaced ==
    [][fin'.called
        => (_bookmarks' = IF fin'.b # NoBookmark THEN <<fin'.b>> ELSE _bookmarks)]_vars

\* C9 witness: a managed transaction's commit reported a bookmark other than
\* the one held before, and it is the only bookmark now.
C9_Witness ==
    /\ op = "run_transaction" /\ fin.called /\ fin.b = "B2"
    /\ _bookmarks = <<"B2">>

\* C10: the bookmarks of every begin and run message are the most recent
\* non-empty bookmark reported by a finished transaction or result, or the
\* seed when none was reported.
C10_CausalChain ==
    carried.sent => carried.bookmarks = reported

\* C10 witness: a begin message carries the bookmark that a finished
\* transaction or result reported.
C10_Witness ==
    /\ op \in {"begin_transaction", "run_transaction_open"}
    /\ carried.sent /\ carried.bookmarks = <<"B1">> /\ reported = <<"B1">>

\* C11: a run called while the previous auto-commit result is attached sends
\* its query only after that result was detached: its records buffered, its
\* bookmark the one the query carries; when the detach did not happen nothing
\* is sent and no connection is acquired or released.  A run that creates a
\* result never leaves the result it replaces attached.
C11_DetachBeforeRun ==
    [][(op' = "run" /\ _autoResult.set /\ _autoResult.attached)
        => (/\ carried'.sent
                => (/\ previous'.done /\ previous'.records = "buffered"
                    /\ carried'.bookmarks =
                           IF previous'.b # NoBookmark THEN <<previous'.b>>
                           ELSE _bookmarks)
            /\ ~previous'.done
                => (/\ ~carried'.sent
                    /\ UNCHANGED <<_connection, in_use, _autoResult>>))]_vars

\* C11 witness: a run has detached the previous result, whose records are
\* buffered, and sent its query with the bookmark of that result.
C11_Witness ==
    /\ op = "run" /\ raised = NoExc
    /\ previous.done /\ previous.records = "buffered" /\ previous.b = "B2"
    /\ carried.sent /\ carried.bookmarks = <<"B2">>
    /\ _autoResult.attached

\* C12: a run called while a transaction is open (with a well-formed query)
\* raises a state error, sends nothing and leaves the transaction, the lease,
\* the result and the bookmarks as they were.
C12_RunInTransactionIsStateError ==
    [][(op' = "run" /\ _transaction.set /\ raised' \notin {ValueError, TypeError})
        => (/\ raised' = TransactionError
            /\ ~carried'.sent
            /\ UNCHANGED <<_transaction, _autoResult, _connection, in_use,
                           _bookmarks>>)]_vars

\* The exception that ended the attempt of the last step: the one recorded,
\* or the one raised to the caller.
AttemptRaised == IF mt_pc = "check" THEN errors[Len(errors)] ELSE raised

NotRetriedCodes == {"Neo.TransientError.Transaction.Terminated",
                    "Neo.TransientError.Transaction.LockClientStopped"}

\* The exceptions after which the loop goes on.
Retried(x) ==
    \/ x.cls \in {"ServiceUnavailable", "SessionExpired"}
    \/ x.cls = "TransientError" /\ x.code \notin NotRetriedCodes

C14_UserErrorPropagates ==
    [][(/\ mt_pc = "finish"
        /\ unit_of_work.cls \notin {"none", "ServiceUnavailable", "SessionExpired",
                                    "TransientError"})
        => (/\ mt_pc' = "idle"
            /\ raised' = unit_of_work)]_vars

C16_GiveUpWithLastError ==
    [][op' = "run_transaction_timeout"
        => (/\ mt_pc = "check" /\ errors # <<>>
            /\ elapsed > max_transaction_retry_time
            /\ raised' = errors[Len(errors)])]_vars

\* C16 witness: the call gave up with a SessionExpired, which only the last
\* of its attempts can have raised after an earlier error of another kind.
C16_Witness ==
    /\ mt_pc = "idle" /\ op = "run_transaction_timeout"
    /\ raised = SessionExpired

\* The index up to which the values of retry_delay_generator are compared
\* with their interval.
MaxValues == 4

\* d lies in [d0 * m^k * (1 - j), d0 * m^k * (1 + j)).
InInterval(d, k) ==
    LET centre == initial_retry_delay * Power(retry_delay_multiplier, k)
    IN  /\ d * JitterDen >= centre * (JitterDen - JitterNum)
        /\ d * JitterDen < centre * (JitterDen + JitterNum)

C18_Terminates ==
    /\ [][op = "run_transaction_start"
            => op' \in {"run_transaction_open", "run_transaction_attempt",
                        "run_transaction"}]_vars
    /\ [][(mt_pc = "check" /\ elapsed > max_transaction_retry_time)
            => mt_pc' = "idle"]_vars
    /\ (mt_pc # "idle") ~> (mt_pc = "idle")

\* C18 witness: a managed transaction has given up after its retries.
C18_Witness ==
    /\ mt_pc = "idle" /\ op = "run_transaction_timeout"
    /\ raised.cls = "TransientError"

\* C19: no connection is released while a transaction begun on it has had
\* neither a commit nor a rollback issued.
C19_NoReleaseWithOpenTransaction == ~abandoned

\* C20: when the opening of a transaction fails, in begin_transaction or in
\* an attempt of a managed transaction, the session has no current
\* transaction afterwards.
C20_FailedOpenLeavesNoTransaction ==
    [][(/\ ~_transaction.set
        /\ \/ op' = "begin_transaction" /\ raised' # NoExc
           \/ mt_pc = "open" /\ mt_pc' # "work")
        => ~_transaction'.set]_vars

====
